---------------------------- MODULE Spec2Model ----------------------------
(***************************************************************************)
(* Model of the ExternData C sources ED_MATFile.c and ED_JSONFile.c.       *)
(*                                                                         *)
(* Four independent state machines share this module:                     *)
(*   SpecT  the in-place transpose kernel, one step per loop iteration     *)
(*   SpecJ  the dotted-path lookup of the JSON readers                     *)
(*   SpecM  the MAT-file readers and the writer                           *)
(*   SpecH  creation and destruction of the file handles                   *)
(* Each specification moves its own variables and leaves the others alone. *)
(***************************************************************************)
EXTENDS Integers, Sequences, FiniteSets, TLC

VARIABLES
    tr,         \* transpose: locals and buffer of the running call
    table0,     \* transpose: the buffer as the caller passed it to the first call
    phase,      \* transpose: 0 before the call, 1 first call, 2 call with swapped dimensions
    jdoc,       \* JSON: which document the handle was created from (0: null handle)
    jroot,      \* JSON: the handle's field root (a node id, 0 when there is no handle)
    jpath,      \* JSON: the varName argument of the calls (a sequence of characters)
    jcalls,     \* JSON: number of getter calls made on the handle
    jres,       \* JSON: what the last getter call returned
    mshape,     \* MAT: dimensions <<m, n>> of the matrix the caller writes
    fileExists, \* MAT: the file named by the handle exists
    fileVars,   \* MAT: the variables stored in the file, in file order
    mcall,      \* MAT: the last call: arguments, outcome, library calls made, buffer
    heap,       \* handles: state of every heap object
    hlast,      \* handles: the last create/destroy call
    hub         \* handles: a destroy call ran into undefined behaviour

tvars == <<tr, table0, phase>>
jvars == <<jdoc, jroot, jpath, jcalls, jres>>
mvars == <<mshape, fileExists, fileVars, mcall>>
hvars == <<heap, hlast, hub>>
vars == <<tr, table0, phase, jdoc, jroot, jpath, jcalls, jres,
          mshape, fileExists, fileVars, mcall, heap, hlast, hub>>

(***************************************************************************)
(* Bounds of the model.                                                    *)
(***************************************************************************)
\* size_t is modelled WordBits wide: all index arithmetic is modulo 2^WordBits
WordBits == 5
\* largest row or column count of the transpose machine
MaxDim == 3

SizeMod == 2 ^ WordBits

\* size_t multiplication, addition and subtraction
SzMul(a, b) == (a * b) % SizeMod
SzAdd(a, b) == (a + b) % SizeMod
SzSub(a, b) == (a - b + SizeMod) % SizeMod

(***************************************************************************)
(* transpose (ED_MATFile.c:68-102)                                         *)
(*   A call is the record                                                  *)
(*     [table, nRow, nCol, i, x, s, tmp, pc, body, rd, wr]                 *)
(*   table, nRow, nCol, i, x, s, tmp are the C variables; pc is the        *)
(*   position; body counts executions of the for body, rd the reads of     *)
(*   the buffer, wr[k] the writes of table[k].                             *)
(*   pc = "ub" is the state after the division by zero of line 78/85/93:   *)
(*   the behaviour of the call is undefined from there on and the model    *)
(*   says nothing more about it.                                           *)
(***************************************************************************)

\* the buffers the caller may pass: iota (1, 2, 3, ...) and one with equal elements
Patterns == {1, 2}
Buffer(pat, len) ==
    [k \in 0..(len - 1) |-> IF pat = 1 THEN k + 1 ELSE (k * k) % 3]

\* line 78, 85, 93, 97: nRow*(i % nCol) + i/nCol, for nCol /= 0
Predecessor(nRow, nCol, k) == SzAdd(SzMul(nRow, k % nCol), k \div nCol)

\* state of a call on entry, before the for statement's initialisation is tested
TransposeEntry(t, nRow, nCol) ==
    [table |-> t, nRow |-> nRow, nCol |-> nCol, i |-> 1, x |-> 0, s |-> 0,
     tmp |-> 0, pc |-> "for", body |-> 0, rd |-> 0,
     wr |-> [k \in DOMAIN t |-> 0]]

\* the bound of the for statement, line 77: nRow*nCol - 1 in size_t
LoopBound(nRow, nCol) == SzSub(SzMul(nRow, nCol), 1)

\* lines 77-82: the loop test, the predecessor of i and the first skip test
ForStep(st) ==
    IF ~(st.i < LoopBound(st.nRow, st.nCol))
    THEN [st EXCEPT !.pc = "done"]
    ELSE IF st.nCol = 0
    THEN [st EXCEPT !.pc = "ub", !.body = st.body + 1]
    ELSE LET x == Predecessor(st.nRow, st.nCol, st.i)
         IN  IF x <= st.i
             THEN [st EXCEPT !.x = x, !.body = st.body + 1, !.i = SzAdd(st.i, 1)]
             ELSE [st EXCEPT !.x = x, !.body = st.body + 1, !.pc = "walk"]

\* the skip test of line 87, which a faulty kernel could leave out
WalkEndNoSkip(st) ==
    [st EXCEPT !.tmp = st.table[st.i], !.s = st.i, !.rd = st.rd + 1,
               !.x = Predecessor(st.nRow, st.nCol, st.i), !.pc = "rot"]
\* lines 87-93: after the walk, skip a visited cycle or start the rotation
WalkEnd(st) ==
    IF st.x < st.i
    THEN [st EXCEPT !.i = SzAdd(st.i, 1), !.pc = "for"]
    ELSE [st EXCEPT !.tmp = st.table[st.i], !.s = st.i, !.rd = st.rd + 1,
                    !.x = Predecessor(st.nRow, st.nCol, st.i), !.pc = "rot"]

\* lines 84-86: one iteration of the walk along the cycle, or its end
WalkStep(st) ==
    IF st.x > st.i
    THEN [st EXCEPT !.x = Predecessor(st.nRow, st.nCol, st.x)]
    ELSE WalkEnd(st)

\* the rotation without the temporary of line 91: the last element of the
\* cycle is taken from table[i], which the rotation has overwritten
RotateStepNoTmp(st) ==
    IF st.x /= st.i
    THEN [st EXCEPT !.table[st.s] = st.table[st.x], !.s = st.x,
                    !.rd = st.rd + 1, !.wr[st.s] = st.wr[st.s] + 1,
                    !.x = Predecessor(st.nRow, st.nCol, st.x)]
    ELSE [st EXCEPT !.table[st.s] = st.table[st.i], !.wr[st.s] = st.wr[st.s] + 1,
                    !.i = SzAdd(st.i, 1), !.pc = "for"]
\* lines 94-99: one iteration of the rotation, or its end
RotateStep(st) ==
    IF st.x /= st.i
    THEN [st EXCEPT !.table[st.s] = st.table[st.x], !.s = st.x,
                    !.rd = st.rd + 1, !.wr[st.s] = st.wr[st.s] + 1,
                    !.x = Predecessor(st.nRow, st.nCol, st.x)]
    ELSE [st EXCEPT !.table[st.s] = st.tmp, !.wr[st.s] = st.wr[st.s] + 1,
                    !.i = SzAdd(st.i, 1), !.pc = "for"]

TransposeStep(st) ==
    CASE st.pc = "for"  -> ForStep(st)
      [] st.pc = "walk" -> WalkStep(st)
      [] st.pc = "rot"  -> RotateStep(st)
      [] OTHER          -> st

\* a whole call: the steps until the function returns or its behaviour is undefined
RECURSIVE TransposeRun(_)
TransposeRun(st) ==
    IF st.pc \in {"done", "ub"} THEN st ELSE TransposeRun(TransposeStep(st))

transpose(t, nRow, nCol) == TransposeRun(TransposeEntry(t, nRow, nCol))

IdleT == [pc |-> "idle"]
NoCall == [kind |-> "none"]
MIdle == [kind |-> "none", outcome |-> "none"]

\* the caller picks the buffer and the dimensions and enters transpose
InitT ==
    /\ \E nRow \in 0..MaxDim, nCol \in 0..MaxDim, pat \in Patterns :
          /\ table0 = Buffer(pat, nRow * nCol)
          /\ tr = TransposeEntry(table0, nRow, nCol)
    /\ phase = 1
    /\ jdoc = 0 /\ jroot = 0 /\ jpath = <<>> /\ jcalls = 0 /\ jres = NoCall
    /\ mshape = <<0, 0>> /\ fileExists = FALSE /\ fileVars = <<>> /\ mcall = MIdle
    /\ heap = <<>> /\ hlast = NoCall /\ hub = FALSE

TFor ==
    /\ tr.pc = "for"
    /\ tr' = ForStep(tr)
    /\ UNCHANGED <<table0, phase>>

TWalk ==
    /\ tr.pc = "walk"
    /\ tr' = WalkStep(tr)
    /\ UNCHANGED <<table0, phase>>

TRotate ==
    /\ tr.pc = "rot"
    /\ tr' = RotateStep(tr)
    /\ UNCHANGED <<table0, phase>>

\* the caller transposes the result back: transpose(t, nCol, nRow)
TBack ==
    /\ tr.pc = "done"
    /\ phase = 1
    /\ tr' = TransposeEntry(tr.table, tr.nCol, tr.nRow)
    /\ phase' = 2
    /\ UNCHANGED table0

(***************************************************************************)
(* Dotted-path lookup (ED_JSONFile.c:114-231)                              *)
(*   A C string is a sequence of one-character strings.  A char* is a      *)
(*   tuple: <<>> is NULL and <<s>> points to the string s.  A JsonNodeRef  *)
(*   is a node id, 0 is NULL.                                              *)
(***************************************************************************)
NULL == <<>>
Ptr(s) == <<s>>
Deref(p) == p[1]

\* longest varName the callers pass
MaxPathLen == 5
\* the model counts the calls made on a handle up to this number
MaxCalls == 2

PathChars == {"a", "b", "c", "x", "."}
RECURSIVE StringsUpTo(_)
StringsUpTo(n) ==
    IF n = 0 THEN {<<>>}
    ELSE LET shorter == StringsUpTo(n - 1)
         IN  shorter \cup {Append(s, ch) : s \in {t \in shorter : Len(t) = n - 1},
                                          ch \in PathChars}
Paths == StringsUpTo(MaxPathLen)

\* The parsed documents.  Document 1 is {"a":{"b":{"c":42}}}.  Document 2 is
\* {"a":{"b":{"c":42,"a":"x1","b":2.5},"c":7,"a":"hello"},"b":[],"c":1.5}.
\* Node 1 is the root, node 2 is a, node 3 is a.b, node 4 is the array b.
\* No member is named x.
Docs == {1, 2}
DocRoot(doc) == IF doc = 0 THEN 0 ELSE 1
NodeChilds(doc, node) ==
    IF doc = 1
    THEN CASE node = 1 -> {[name |-> <<"a">>, type |-> "JSON_OBJ", id |-> 2]}
           [] node = 2 -> {[name |-> <<"b">>, type |-> "JSON_OBJ", id |-> 3]}
           [] OTHER    -> {}
    ELSE CASE node = 1 -> {[name |-> <<"a">>, type |-> "JSON_OBJ", id |-> 2],
                           [name |-> <<"b">>, type |-> "JSON_ARRAY", id |-> 4]}
           [] node = 2 -> {[name |-> <<"b">>, type |-> "JSON_OBJ", id |-> 3]}
           [] OTHER    -> {}
NodePairs(doc, node) ==
    IF doc = 1
    THEN CASE node = 3 -> {[key |-> <<"c">>, value |-> <<"4", "2">>]}
           [] OTHER    -> {}
    ELSE CASE node = 1 -> {[key |-> <<"c">>, value |-> <<"1", ".", "5">>]}
           [] node = 2 -> {[key |-> <<"c">>, value |-> <<"7">>],
                           [key |-> <<"a">>, value |-> <<"h", "e", "l", "l", "o">>]}
           [] node = 3 -> {[key |-> <<"c">>, value |-> <<"4", "2">>],
                           [key |-> <<"a">>, value |-> <<"x", "1">>],
                           [key |-> <<"b">>, value |-> <<"2", ".", "5">>]}
           [] OTHER    -> {}

\* JsonNode_findChild(node, name, type): the child of that name and type, or NULL
JsonNode_findChild(doc, node, name, type) ==
    LET hits == {c \in NodeChilds(doc, node) : c.name = name /\ c.type = type}
    IN  IF hits = {} THEN 0 ELSE (CHOOSE c \in hits : TRUE).id

\* JsonNode_getPairValue(node, key): the value text of that pair, or NULL
JsonNode_getPairValue(doc, node, key) ==
    LET hits == {p \in NodePairs(doc, node) : p.key = key}
    IN  IF hits = {} THEN NULL ELSE Ptr((CHOOSE p \in hits : TRUE).value)

\* strtok_r(str, ".", &saveptr) on the copy buf, scanning from position pos:
\* skip the separators, return the run of other characters up to the next
\* separator or the end, and leave saveptr behind that separator.
RECURSIVE SkipDelims(_, _)
SkipDelims(buf, pos) ==
    IF pos <= Len(buf) /\ buf[pos] = "." THEN SkipDelims(buf, pos + 1) ELSE pos
RECURSIVE TokenEnd(_, _)
TokenEnd(buf, pos) ==
    IF pos <= Len(buf) /\ buf[pos] /= "." THEN TokenEnd(buf, pos + 1) ELSE pos
\* a tokenizer that returns empty tokens instead of skipping separators
strtok_keep_empty(buf, pos) ==
    LET stop == TokenEnd(buf, pos)
    IN  IF pos > Len(buf)
        THEN [token |-> NULL, next |-> pos]
        ELSE [token |-> Ptr(SubSeq(buf, pos, stop - 1)), next |-> stop + 1]
strtok_r(buf, pos) ==
    LET start == SkipDelims(buf, pos)
        stop  == TokenEnd(buf, start)
    IN  IF start > Len(buf)
        THEN [token |-> NULL, next |-> start]
        ELSE [token |-> Ptr(SubSeq(buf, start, stop - 1)),
              next  |-> IF stop > Len(buf) THEN stop ELSE stop + 1]

\* lines 122-133: descend while the token names a child object
RECURSIVE FindLoop(_, _, _, _)
FindLoop(doc, buf, root, tok) ==
    IF tok.token = NULL
    THEN [root |-> root, key |-> NULL, token |-> NULL]
    ELSE LET iter == JsonNode_findChild(doc, root, Deref(tok.token), "JSON_OBJ")
             nxt  == strtok_r(buf, tok.next)
         IN  IF iter /= 0
             THEN FindLoop(doc, buf, iter, nxt)
             ELSE [root |-> root, key |-> tok.token, token |-> nxt.token]

\* findValue with line 147 missing: the failure branch leaves the caller's root
findValueKeepRoot(doc, root, varName, strdupOk) ==
    IF ~strdupOk
    THEN [token |-> NULL, root |-> root, msgs |-> 0, fatal |-> TRUE]
    ELSE LET r == FindLoop(doc, varName, root, strtok_r(varName, 1))
         IN  IF r.key /= NULL /\ r.root /= 0 /\ r.token = NULL
             THEN LET v == JsonNode_getPairValue(doc, r.root, Deref(r.key))
                  IN  IF v = NULL
                      THEN [token |-> NULL, root |-> 0, msgs |-> 1, fatal |-> FALSE]
                      ELSE [token |-> v, root |-> r.root, msgs |-> 0, fatal |-> FALSE]
             ELSE [token |-> NULL, root |-> r.root, msgs |-> 1, fatal |-> FALSE]
\* findValue(&root, varName, fileName), lines 114-155.  strdupOk: strdup returned
\* a copy.  The result holds the returned token, the caller's root afterwards,
\* the number of ModelicaFormatMessage calls and whether ModelicaError was called.
findValue(doc, root, varName, strdupOk) ==
    IF ~strdupOk
    THEN [token |-> NULL, root |-> root, msgs |-> 0, fatal |-> TRUE]
    ELSE LET r == FindLoop(doc, varName, root, strtok_r(varName, 1))
         IN  IF r.key /= NULL /\ r.root /= 0 /\ r.token = NULL
             THEN LET v == JsonNode_getPairValue(doc, r.root, Deref(r.key))
                  IN  IF v = NULL
                      THEN [token |-> NULL, root |-> 0, msgs |-> 1, fatal |-> FALSE]
                      ELSE [token |-> v, root |-> r.root, msgs |-> 0, fatal |-> FALSE]
             ELSE [token |-> NULL, root |-> 0, msgs |-> 1, fatal |-> FALSE]

\* ED_strtol and ED_strtod: 0 and the number when the whole token is a number
\* of that kind.  A double is <<n, d>>, standing for n / 10^d.
Digits == <<"0", "1", "2", "3", "4", "5", "6", "7", "8", "9">>
IsDigit(ch) == \E d \in 1..10 : Digits[d] = ch
DigitVal(ch) == (CHOOSE d \in 1..10 : Digits[d] = ch) - 1
RECURSIVE DigitsVal(_)
DigitsVal(s) ==
    IF s = <<>> THEN 0
    ELSE 10 * DigitsVal(SubSeq(s, 1, Len(s) - 1)) + DigitVal(s[Len(s)])
AllDigits(s) == s /= <<>> /\ \A k \in 1..Len(s) : IsDigit(s[k])
Unsigned(s) == IF s /= <<>> /\ s[1] = "-" THEN Tail(s) ELSE s
Sign(s) == IF s /= <<>> /\ s[1] = "-" THEN -1 ELSE 1
ED_strtol(token) ==
    IF AllDigits(Unsigned(token))
    THEN [err |-> 0, val |-> Sign(token) * DigitsVal(Unsigned(token))]
    ELSE [err |-> 1, val |-> 0]
ED_strtod(token) ==
    LET u == Unsigned(token)
        dots == {k \in 1..Len(u) : u[k] = "."}
    IN  IF AllDigits(u)
        THEN [err |-> 0, val |-> <<Sign(token) * DigitsVal(u), 0>>]
        ELSE IF Cardinality(dots) = 1
        THEN LET k == CHOOSE d \in dots : TRUE
                 ip == SubSeq(u, 1, k - 1)
                 fp == SubSeq(u, k + 1, Len(u))
             IN  IF AllDigits(ip) /\ AllDigits(fp)
                 THEN [err |-> 0, val |-> <<Sign(token) * DigitsVal(ip \o fp), Len(fp)>>]
                 ELSE [err |-> 1, val |-> <<0, 0>>]
        ELSE [err |-> 1, val |-> <<0, 0>>]

\* A getter's outcome: ret and exist are what the caller receives when the call
\* returns; fatal says whether ModelicaError ("alloc") or ModelicaFormatError
\* ("convert") ended the call instead ("no": neither); msgs counts the
\* ModelicaFormatMessage calls; root is the getter's local root after
\* findValue; stored is the handle's field root after the call.
GetterResult(kind, ret, exist, fatal, msgs, root, stored) ==
    [kind |-> kind, ret |-> ret, exist |-> exist, fatal |-> fatal,
     msgs |-> msgs, root |-> root, stored |-> stored]

\* the root the getters hand to findValue: the local copy of json->root
\* (a getter handing &json->root itself would let findValue overwrite the field)
StoredRootAfterAliased(stored, found) == found.root
StoredRootAfter(stored, found) == stored

\* ED_getDoubleFromJSON, lines 157-181
ED_getDoubleFromJSON(doc, stored, varName, strdupOk) ==
    IF doc = 0
    THEN GetterResult("double", <<0, 0>>, 1, "no", 0, 0, stored)
    ELSE LET f == findValue(doc, stored, varName, strdupOk)
             after == StoredRootAfter(stored, f)
         IN  IF f.fatal
             THEN GetterResult("double", <<0, 0>>, 1, "alloc", f.msgs, f.root, after)
             ELSE IF f.token /= NULL
             THEN LET c == ED_strtod(Deref(f.token))
                  IN  GetterResult("double", c.val, 1, IF c.err /= 0 THEN "convert" ELSE "no", f.msgs, f.root, after)
             ELSE IF f.root /= 0
             THEN GetterResult("double", <<0, 0>>, 0, "no", f.msgs + 1, f.root, after)
             ELSE GetterResult("double", <<0, 0>>, 0, "no", f.msgs, f.root, after)

\* ED_getStringFromJSON, lines 183-205
ED_getStringFromJSON(doc, stored, varName, strdupOk) ==
    IF doc = 0
    THEN GetterResult("string", <<>>, 1, "no", 0, 0, stored)
    ELSE LET f == findValue(doc, stored, varName, strdupOk)
             after == StoredRootAfter(stored, f)
         IN  IF f.fatal
             THEN GetterResult("string", <<>>, 1, "alloc", f.msgs, f.root, after)
             ELSE IF f.token /= NULL
             THEN GetterResult("string", Deref(f.token), 1, "no", f.msgs, f.root, after)
             ELSE IF f.root /= 0
             THEN GetterResult("string", <<>>, 0, "no", f.msgs + 1, f.root, after)
             ELSE GetterResult("string", <<>>, 0, "no", f.msgs, f.root, after)

\* ED_getIntFromJSON, lines 207-231
ED_getIntFromJSON(doc, stored, varName, strdupOk) ==
    IF doc = 0
    THEN GetterResult("int", 0, 1, "no", 0, 0, stored)
    ELSE LET f == findValue(doc, stored, varName, strdupOk)
             after == StoredRootAfter(stored, f)
         IN  IF f.fatal
             THEN GetterResult("int", 0, 1, "alloc", f.msgs, f.root, after)
             ELSE IF f.token /= NULL
             THEN LET c == ED_strtol(Deref(f.token))
                  IN  GetterResult("int", c.val, 1, IF c.err /= 0 THEN "convert" ELSE "no", f.msgs, f.root, after)
             ELSE IF f.root /= 0
             THEN GetterResult("int", 0, 0, "no", f.msgs + 1, f.root, after)
             ELSE GetterResult("int", 0, 0, "no", f.msgs, f.root, after)

\* the handle is null or was created from one of the documents; the caller
\* picks the path it will ask for
InitJ ==
    /\ jdoc \in {0} \cup Docs
    /\ jroot = DocRoot(jdoc)
    /\ jpath \in Paths
    /\ jcalls = 0
    /\ jres = NoCall
    /\ tr = IdleT /\ table0 = <<>> /\ phase = 0
    /\ mshape = <<0, 0>> /\ fileExists = FALSE /\ fileVars = <<>> /\ mcall = MIdle
    /\ heap = <<>> /\ hlast = NoCall /\ hub = FALSE

GetDouble ==
    /\ \E strdupOk \in BOOLEAN :
          jres' = ED_getDoubleFromJSON(jdoc, jroot, jpath, strdupOk)
    /\ jroot' = jres'.stored
    /\ jcalls' = IF jcalls < MaxCalls THEN jcalls + 1 ELSE jcalls
    /\ UNCHANGED <<jdoc, jpath>>

GetInt ==
    /\ \E strdupOk \in BOOLEAN :
          jres' = ED_getIntFromJSON(jdoc, jroot, jpath, strdupOk)
    /\ jroot' = jres'.stored
    /\ jcalls' = IF jcalls < MaxCalls THEN jcalls + 1 ELSE jcalls
    /\ UNCHANGED <<jdoc, jpath>>

GetString ==
    /\ \E strdupOk \in BOOLEAN :
          jres' = ED_getStringFromJSON(jdoc, jroot, jpath, strdupOk)
    /\ jroot' = jres'.stored
    /\ jcalls' = IF jcalls < MaxCalls THEN jcalls + 1 ELSE jcalls
    /\ UNCHANGED <<jdoc, jpath>>

(***************************************************************************)
(* The specifications.                                                     *)
(***************************************************************************)
NextT ==
    \/ TFor /\ UNCHANGED <<jvars, mvars, hvars>>
    \/ TWalk /\ UNCHANGED <<jvars, mvars, hvars>>
    \/ TRotate /\ UNCHANGED <<jvars, mvars, hvars>>
    \/ TBack /\ UNCHANGED <<jvars, mvars, hvars>>

SpecT == InitT /\ [][NextT]_vars
\* a call of transpose runs on the caller's thread until it returns
FairSpecT == SpecT /\ WF_vars(NextT)

NextJ ==
    \/ GetDouble /\ UNCHANGED <<tvars, mvars, hvars>>
    \/ GetInt /\ UNCHANGED <<tvars, mvars, hvars>>
    \/ GetString /\ UNCHANGED <<tvars, mvars, hvars>>

SpecJ == InitJ /\ [][NextJ]_vars

(***************************************************************************)
(* MAT-file readers and writer (ED_MATFile.c:104-303)                      *)
(*   The file named by the handle is fileExists and fileVars, the          *)
(*   variables in file order.  A variable is the record                    *)
(*     [name, rank, class_type, isComplex, dims, data]                     *)
(*   with data in the file's column-major order.  A buffer of doubles is   *)
(*   a function on 0..len-1, as in transpose.                              *)
(*   A call yields [outcome, ret, trace, a, dim, exists, vars]: outcome    *)
(*   is "return", "fatal" (ModelicaError or ModelicaFormatError ended the  *)
(*   call) or "ub" (transpose divided by zero); trace lists in order the   *)
(*   resources obtained and released and the calls that touch the buffer.  *)
(***************************************************************************)
\* largest m and n of the matrix the caller writes and of the read requests
MaxM == 2
MaxN == 3

Names == {"A", "B"}
\* the row-major matrices the caller writes, told apart by pat
Data(pat, len) == [k \in 0..(len - 1) |-> 10 * pat + k]
\* the caller's buffer before a read
Untouched(len) == [k \in 0..(len - 1) |-> -1]

MatVar(name, rank, class, cplx, dims, data) ==
    [name |-> name, rank |-> rank, class_type |-> class, isComplex |-> cplx,
     dims |-> dims, data |-> data]

\* Mat_Open: a handle on an existing file, NULL otherwise or when the open fails
Mat_Open(exists, fault) == exists /\ fault /= "open"
\* Mat_CreateVer: a handle on a new, empty file, NULL when the creation fails
Mat_CreateVer(fault) == fault /= "open"
\* Mat_VarReadInfo: the descriptor of the first variable of that name, or NULL
Mat_VarReadInfo(fvars, varName) ==
    LET hits == {k \in 1..Len(fvars) : fvars[k].name = varName}
    IN  IF hits = {} THEN NULL
        ELSE Ptr(fvars[CHOOSE k \in hits : \A l \in hits : k <= l])
\* Mat_VarDelete: the file without the variables of that name
Mat_VarDelete(fvars, varName) == SelectSeq(fvars, LAMBDA v : v.name /= varName)
\* Mat_VarWrite: the variable is added at the end of the file
Mat_VarWrite(fvars, matvar) == Append(fvars, matvar)

MatResult(outcome, ret, trace, a, dim, exists, fvars) ==
    [outcome |-> outcome, ret |-> ret, trace |-> trace, a |-> a, dim |-> dim,
     exists |-> exists, vars |-> fvars]

\* ED_getDimDoubleArray2DFromMAT, lines 104-148
ED_getDimDoubleArray2DFromMAT(h, exists, fvars, varName, dim, fault) ==
    IF h = 0 THEN MatResult("return", 0, <<>>, <<>>, dim, exists, fvars)
    ELSE IF ~Mat_Open(exists, fault)
    THEN MatResult("fatal", 0, <<"error">>, <<>>, <<0, 0>>, exists, fvars)
    ELSE LET matvar == Mat_VarReadInfo(fvars, varName)
         IN  IF matvar = NULL
             THEN MatResult("fatal", 0, <<"open", "close", "error">>, <<>>,
                            <<0, 0>>, exists, fvars)
             ELSE IF Deref(matvar).rank /= 2
             THEN MatResult("fatal", 0, <<"open", "var", "varfree", "close", "error">>,
                            <<>>, <<0, 0>>, exists, fvars)
             ELSE MatResult("return", 0, <<"open", "var", "varfree", "close">>,
                            <<>>, Deref(matvar).dims, exists, fvars)

\* the row check alone, as if lines 216-225 were missing
DimsMatchRowsOnly(m, n, nRow, nCol) == m = nRow
\* lines 205-225: both dimension checks passed
DimsMatch(m, n, nRow, nCol) == m = nRow /\ n = nCol

\* a check of lines 175-225 that fails without closing the file
CheckFailedKeepOpen == <<"varfree", "error">>
\* lines 177-181, 186-190, 195-199, 207-213, 218-224: release, then the error
CheckFailed == <<"varfree", "close", "error">>

\* ED_getDoubleArray2DFromMAT, lines 150-251.  Mat_VarReadData copies the
\* variable's data into a; a read that fails is taken to leave a as it was.
ED_getDoubleArray2DFromMAT(h, exists, fvars, varName, a, m, n, fault) ==
    IF h = 0 THEN MatResult("return", 0, <<>>, a, <<>>, exists, fvars)
    ELSE IF ~Mat_Open(exists, fault)
    THEN MatResult("fatal", 0, <<"error">>, a, <<>>, exists, fvars)
    ELSE LET matvar == Mat_VarReadInfo(fvars, varName)
         IN  IF matvar = NULL
             THEN MatResult("fatal", 0, <<"open", "close", "error">>, a, <<>>,
                            exists, fvars)
             ELSE LET v == Deref(matvar)
                      nRow == v.dims[1]
                      nCol == v.dims[2]
                  IN  IF \/ v.rank /= 2
                         \/ v.class_type /= "MAT_C_DOUBLE"
                         \/ v.isComplex
                         \/ ~DimsMatch(m, n, nRow, nCol)
                      THEN MatResult("fatal", 0, <<"open", "var">> \o CheckFailed,
                                     a, <<>>, exists, fvars)
                      ELSE IF fault = "read"
                      THEN MatResult("fatal", 0,
                                     <<"open", "var", "readdata", "varfree", "close", "error">>,
                                     a, <<>>, exists, fvars)
                      ELSE LET t == transpose(v.data, nRow, nCol)
                               tr0 == <<"open", "var", "readdata", "varfree", "close",
                                        "transpose">>
                           IN  IF t.pc = "ub"
                               THEN MatResult("ub", 0, tr0, v.data, <<>>, exists, fvars)
                               ELSE MatResult("return", 0, tr0, t.table, <<>>,
                                              exists, fvars)

\* the writer without line 273
KeepOld(fvars, varName, append) == fvars
\* lines 272-274: Mat_VarDelete when appending
DeleteOld(fvars, varName, append) ==
    IF append /= 0 THEN Mat_VarDelete(fvars, varName) ELSE fvars

\* ED_writeDoubleArray2DToMAT, lines 253-303
ED_writeDoubleArray2DToMAT(h, exists, fvars, varName, a, m, n, append, fault) ==
    IF h = 0 THEN MatResult("return", 0, <<>>, a, <<>>, exists, fvars)
    ELSE IF ~(IF append = 0 THEN Mat_CreateVer(fault) ELSE Mat_Open(exists, fault))
    THEN MatResult("fatal", 0, <<"error">>, a, <<>>, exists, fvars)
    ELSE LET opened == IF append = 0 THEN <<>> ELSE fvars
             kept == DeleteOld(opened, varName, append)
         IN  IF fault = "malloc"
             THEN MatResult("fatal", 0, <<"open", "close", "error">>, a, <<>>,
                            TRUE, kept)
             ELSE LET t == transpose(a, n, m)
                      matvar == MatVar(varName, 2, "MAT_C_DOUBLE", FALSE, <<m, n>>,
                                       t.table)
                      tr0 == <<"open", "malloc", "transpose">>
                  IN  IF t.pc = "ub"
                      THEN MatResult("ub", 0, tr0, a, <<>>, TRUE, kept)
                      ELSE IF fault = "write"
                      THEN MatResult("fatal", 0,
                                     tr0 \o <<"var", "varfree", "close", "free", "error">>,
                                     a, <<>>, TRUE, kept)
                      ELSE MatResult("return", 1,
                                     tr0 \o <<"var", "varfree", "close", "free">>,
                                     a, <<>>, TRUE, Mat_VarWrite(kept, matvar))

\* the files the caller may find: none, or one holding a variable A that is no
\* real double matrix
OddVars ==
    {MatVar("A", 3, "MAT_C_DOUBLE", FALSE, <<1, 2>>, Data(3, 2)),
     MatVar("A", 2, "MAT_C_SINGLE", FALSE, <<1, 2>>, Data(3, 2)),
     MatVar("A", 2, "MAT_C_DOUBLE", TRUE, <<1, 2>>, Data(3, 2))}

\* the inputs and the result of a call, and the file before it
MatCall(kind, h, varName, m, n, append, fault, a0, res, exists, fvars) ==
    [kind |-> kind, h |-> h, name |-> varName, m |-> m, n |-> n,
     append |-> append, fault |-> fault, a0 |-> a0,
     outcome |-> res.outcome, ret |-> res.ret, trace |-> res.trace,
     a |-> res.a, dim |-> res.dim,
     before |-> [exists |-> exists, vars |-> fvars]]

InitM ==
    /\ mshape \in (0..MaxM) \X (0..MaxN)
    /\ \/ fileExists = FALSE /\ fileVars = <<>>
       \/ fileExists = TRUE /\ \E v \in OddVars : fileVars = <<v>>
    /\ mcall = MIdle
    /\ tr = IdleT /\ table0 = <<>> /\ phase = 0
    /\ jdoc = 0 /\ jroot = 0 /\ jpath = <<>> /\ jcalls = 0 /\ jres = NoCall
    /\ heap = <<>> /\ hlast = NoCall /\ hub = FALSE

\* after undefined behaviour nothing more is known of the process
Running == mcall.outcome /= "ub"

GetMatrixDims ==
    /\ Running
    /\ \E h \in {0, 1}, varName \in Names, fault \in {"none", "open"} :
          LET res == ED_getDimDoubleArray2DFromMAT(h, fileExists, fileVars, varName,
                                                   <<-1, -1>>, fault)
          IN  /\ (h = 0 => (varName = "A" /\ fault = "none"))
              /\ mcall' = MatCall("getDim", h, varName, 0, 0, 0, fault, <<>>, res,
                                  fileExists, fileVars)
    /\ UNCHANGED <<mshape, fileExists, fileVars>>

GetMatrix ==
    /\ Running
    /\ \E h \in {0, 1}, varName \in Names, m \in 0..MaxM, n \in 0..MaxN,
          fault \in {"none", "open", "read"} :
          LET a0 == Untouched(m * n)
              res == ED_getDoubleArray2DFromMAT(h, fileExists, fileVars, varName,
                                                a0, m, n, fault)
          IN  /\ (h = 0 => (varName = "A" /\ fault = "none" /\ <<m, n>> = mshape))
              \* a failing open or read ends the call whatever m and n are
              /\ (fault /= "none" => <<m, n>> = mshape)
              /\ mcall' = MatCall("getMatrix", h, varName, m, n, 0, fault, a0, res,
                                  fileExists, fileVars)
    /\ UNCHANGED <<mshape, fileExists, fileVars>>

WriteMatrix ==
    /\ Running
    /\ \E h \in {0, 1}, varName \in Names, pat \in {1, 2}, append \in {0, 1},
          fault \in {"none", "open", "malloc", "write"} :
          LET a0 == Data(pat, mshape[1] * mshape[2])
              res == ED_writeDoubleArray2DToMAT(h, fileExists, fileVars, varName, a0,
                                                mshape[1], mshape[2], append, fault)
          IN  /\ (h = 0 => (varName = "A" /\ fault = "none" /\ pat = 1))
              \* a failing open ends the call before the data is looked at
              /\ (fault = "open" => pat = 1)
              /\ mcall' = MatCall("write", h, varName, mshape[1], mshape[2], append,
                                  fault, a0, res, fileExists, fileVars)
              /\ fileExists' = res.exists
              /\ fileVars' = res.vars
    /\ UNCHANGED mshape

NextM ==
    \/ GetMatrixDims /\ UNCHANGED <<tvars, jvars, hvars>>
    \/ GetMatrix /\ UNCHANGED <<tvars, jvars, hvars>>
    \/ WriteMatrix /\ UNCHANGED <<tvars, jvars, hvars>>

SpecM == InitM /\ [][NextM]_vars


(***************************************************************************)
(* Creation and destruction of the handles (ED_MATFile.c:40-66,            *)
(* ED_JSONFile.c:64-112)                                                   *)
(*   heap[h] holds the heap objects of the h-th struct allocated: the      *)
(*   struct itself, the fileName copy and, for a JSON handle, the node     *)
(*   tree and the locale.  An object is "none" (never allocated), "live",  *)
(*   "freed" or "freed2" (freed a second time).  A handle is the index of  *)
(*   its struct, 0 is NULL; returned says that the create call handed it   *)
(*   to the caller.                                                        *)
(***************************************************************************)
\* number of structs the model allocates
MaxHandles == 3

Free(status) ==
    CASE status = "live"  -> "freed"
      [] status = "freed" -> "freed2"
      [] OTHER            -> status
Slot(type, returned, struct, name, tree, loc) ==
    [type |-> type, returned |-> returned, struct |-> struct, name |-> name,
     tree |-> tree, loc |-> loc]
NoSlot == Slot("none", FALSE, "none", "none", "none", "none")

HandleResult(hp, ub, uaf) == [heap |-> hp, ub |-> ub, uaf |-> uaf]

\* ED_createMAT, lines 40-55 of ED_MATFile.c, allocating struct number h
ED_createMAT(hp, h, fault) ==
    CASE fault = "malloc" -> hp
      [] fault = "strdup" ->
            [hp EXCEPT ![h] = Slot("mat", FALSE, "freed", "none", "none", "none")]
      [] OTHER ->
            [hp EXCEPT ![h] = Slot("mat", TRUE, "live", "live", "none", "none")]

\* ED_createJSON, lines 64-99 of ED_JSONFile.c, allocating struct number h
ED_createJSON(hp, h, fault) ==
    CASE fault = "malloc" -> hp
      [] fault = "strdup" ->
            [hp EXCEPT ![h] = Slot("json", FALSE, "freed", "none", "none", "none")]
      [] fault = "parse" ->
            [hp EXCEPT ![h] = Slot("json", FALSE, "freed", "freed", "none", "none")]
      [] OTHER ->
            [hp EXCEPT ![h] = Slot("json", TRUE, "live", "live", "live", "live")]

\* ED_destroyMAT without the test of line 60: a null handle is dereferenced
ED_destroyMATNoNullTest(hp, h, stale) ==
    IF h = 0 THEN HandleResult(hp, TRUE, 0)
    ELSE IF hp[h].struct = "live"
    THEN HandleResult([hp EXCEPT ![h].name = Free(hp[h].name),
                                 ![h].struct = Free(hp[h].struct)], FALSE, 0)
    ELSE HandleResult([hp EXCEPT ![h].name = IF stale = "null" THEN hp[h].name
                                             ELSE Free(hp[h].name),
                                 ![h].struct = Free(hp[h].struct)], TRUE, 1)
\* ED_destroyMAT, lines 57-66 of ED_MATFile.c.  On a struct that was freed the
\* read of mat->fileName yields anything: stale says whether it compares equal
\* to NULL or is handed to free once more.
ED_destroyMAT(hp, h, stale) ==
    IF h = 0 THEN HandleResult(hp, FALSE, 0)
    ELSE IF hp[h].struct = "live"
    THEN HandleResult([hp EXCEPT ![h].name = Free(hp[h].name),
                                 ![h].struct = Free(hp[h].struct)], FALSE, 0)
    ELSE HandleResult([hp EXCEPT ![h].name = IF stale = "null" THEN hp[h].name
                                             ELSE Free(hp[h].name),
                                 ![h].struct = Free(hp[h].struct)], TRUE, 1)

\* ED_destroyJSON, lines 101-112 of ED_JSONFile.c.  On a struct that was freed
\* fileName, root and loc are read from freed memory.
ED_destroyJSON(hp, h, stale) ==
    IF h = 0 THEN HandleResult(hp, FALSE, 0)
    ELSE IF hp[h].struct = "live"
    THEN HandleResult([hp EXCEPT ![h].name = Free(hp[h].name),
                                 ![h].tree = Free(hp[h].tree),
                                 ![h].loc = Free(hp[h].loc),
                                 ![h].struct = Free(hp[h].struct)], FALSE, 0)
    ELSE HandleResult([hp EXCEPT ![h].name = IF stale = "null" THEN hp[h].name
                                             ELSE Free(hp[h].name),
                                 ![h].tree = Free(hp[h].tree),
                                 ![h].loc = Free(hp[h].loc),
                                 ![h].struct = Free(hp[h].struct)], TRUE, 3)

HandleCall(kind, h, fault, released, uaf, before) ==
    [kind |-> kind, h |-> h, fault |-> fault, released |-> released,
     uaf |-> uaf, before |-> before]

InitH ==
    /\ heap = [h \in 1..MaxHandles |-> NoSlot]
    /\ hlast = NoCall
    /\ hub = FALSE
    /\ tr = IdleT /\ table0 = <<>> /\ phase = 0
    /\ jdoc = 0 /\ jroot = 0 /\ jpath = <<>> /\ jcalls = 0 /\ jres = NoCall
    /\ mshape = <<0, 0>> /\ fileExists = FALSE /\ fileVars = <<>> /\ mcall = MIdle

\* malloc hands out the next struct
Unused == {h \in 1..MaxHandles : heap[h].type = "none"}
NextStruct == CHOOSE h \in Unused : \A g \in Unused : h <= g
\* the handles of a type the caller holds, released or not, and NULL
Held(type) == {0} \cup {h \in 1..MaxHandles : heap[h].type = type /\ heap[h].returned}

CreateMAT ==
    /\ ~hub /\ Unused /= {}
    /\ \E fault \in {"none", "malloc", "strdup"} :
          /\ heap' = ED_createMAT(heap, NextStruct, fault)
          /\ hlast' = HandleCall("createMAT", NextStruct, fault, FALSE, 0, heap)
    /\ UNCHANGED hub

CreateJSON ==
    /\ ~hub /\ Unused /= {}
    /\ \E fault \in {"none", "malloc", "strdup", "parse"} :
          /\ heap' = ED_createJSON(heap, NextStruct, fault)
          /\ hlast' = HandleCall("createJSON", NextStruct, fault, FALSE, 0, heap)
    /\ UNCHANGED hub

DestroyMAT ==
    /\ ~hub
    /\ \E h \in Held("mat"), stale \in {"null", "dangling"} :
          LET res == ED_destroyMAT(heap, h, stale)
          IN  /\ heap' = res.heap
              /\ hub' = res.ub
              /\ hlast' = HandleCall("destroyMAT", h, "none",
                                     h /= 0 /\ heap[h].struct /= "live", res.uaf, heap)

DestroyJSON ==
    /\ ~hub
    /\ \E h \in Held("json"), stale \in {"null", "dangling"} :
          LET res == ED_destroyJSON(heap, h, stale)
          IN  /\ heap' = res.heap
              /\ hub' = res.ub
              /\ hlast' = HandleCall("destroyJSON", h, "none",
                                     h /= 0 /\ heap[h].struct /= "live", res.uaf, heap)

NextH ==
    \/ CreateMAT /\ UNCHANGED <<tvars, jvars, mvars>>
    \/ CreateJSON /\ UNCHANGED <<tvars, jvars, mvars>>
    \/ DestroyMAT /\ UNCHANGED <<tvars, jvars, mvars>>
    \/ DestroyJSON /\ UNCHANGED <<tvars, jvars, mvars>>

SpecH == InitH /\ [][NextH]_vars


(***************************************************************************)
(* Properties of the transpose kernel.                                     *)
(***************************************************************************)
\* the index the claim gives for the source of element k, in plain integers
SourceIndex(nRow, nCol, k) == nRow * (k % nCol) + (k \div nCol)

FirstCallDone == phase = 1 /\ tr.pc = "done"
ProperDims == tr.pc /= "idle" /\ tr.nRow >= 1 /\ tr.nCol >= 1

C1_Result ==
    (FirstCallDone /\ ProperDims) =>
        /\ DOMAIN tr.table = DOMAIN table0
        /\ \A k \in DOMAIN table0 :
              /\ tr.table[k] = table0[SourceIndex(tr.nRow, tr.nCol, k)]
              /\ tr.wr[k] = IF SourceIndex(tr.nRow, tr.nCol, k) = k THEN 0 ELSE 1
C1_MovedOnce ==
    (phase = 1 /\ ProperDims) => \A k \in DOMAIN tr.wr : tr.wr[k] <= 1
C1_Example ==
    (FirstCallDone /\ tr.nRow = 3 /\ tr.nCol = 2 /\ table0 = Buffer(1, 6)) =>
        tr.table = [k \in 0..5 |-> <<1, 4, 2, 5, 3, 6>>[k + 1]]

\* C1: for nRow, nCol >= 1 a call transpose(t, nRow, nCol) terminates, and when
\* it returns the buffer holds at every index i the element that was at
\* nRow*(i mod nCol) + i div nCol, every element off a fixed point written
\* exactly once and no element twice; the buffer 1..6 transposed with
\* nRow = 3, nCol = 2 is 1,4,2,5,3,6.
C1_TransposeCorrect ==
    /\ [](C1_Result /\ C1_MovedOnce /\ C1_Example)
    /\ ((phase = 1 /\ ProperDims) => <>FirstCallDone)

C1_Witness ==
    /\ FirstCallDone /\ tr.nRow = 3 /\ tr.nCol = 2
    /\ table0 = Buffer(1, 6)
    /\ tr.table[1] = 4 /\ tr.table[4] = 3
    /\ tr.wr[1] = 1 /\ tr.wr[0] = 0

\* C5: for nRow, nCol >= 1, transpose(t, nRow, nCol) followed by
\* transpose(t, nCol, nRow) leaves the buffer as it was before the first call.
C5_RoundTrip ==
    (phase = 2 /\ tr.pc = "done" /\ ProperDims) => tr.table = table0

C5_Witness ==
    /\ phase = 2 /\ tr.pc = "done" /\ tr.nRow = 2 /\ tr.nCol = 3
    /\ table0 = Buffer(1, 6) /\ tr.table = table0
    /\ \E k \in DOMAIN tr.wr : tr.wr[k] = 1

\* C9: transpose(t, nRow, nCol) with nRow*nCol <= 1, the empty buffers included,
\* executes the loop body zero times, divides by zero nowhere and reads and
\* writes no element.
C9_DegenerateNoOp ==
    (phase = 1 /\ tr.nRow * tr.nCol <= 1) =>
        /\ tr.body = 0
        /\ tr.pc /= "ub"
        /\ tr.rd = 0
        /\ \A k \in DOMAIN tr.wr : tr.wr[k] = 0

(***************************************************************************)
(* Properties of the dotted-path lookup.                                   *)
(***************************************************************************)
\* The path cut at every separator: "a..b" has the segments a, (empty), b, and
\* the empty path has one empty segment.
RECURSIVE SplitDots(_)
SplitDots(path) ==
    LET dots == {k \in 1..Len(path) : path[k] = "."}
    IN  IF dots = {} THEN <<path>>
        ELSE LET d == CHOOSE k \in dots : \A l \in dots : k <= l
             IN  <<SubSeq(path, 1, d - 1)>> \o SplitDots(SubSeq(path, d + 1, Len(path)))
Segments(path) == SplitDots(path)
HasEmptySegment(path) == \E k \in 1..Len(Segments(path)) : Segments(path)[k] = <<>>
NonEmptySegments(path) == SelectSeq(Segments(path), LAMBDA seg : seg /= <<>>)
RECURSIVE JoinDots(_)
JoinDots(segs) ==
    IF segs = <<>> THEN <<>>
    ELSE IF Len(segs) = 1 THEN segs[1]
    ELSE segs[1] \o <<".">> \o JoinDots(Tail(segs))

\* the object reached from node through the child objects named by segs, or 0
RECURSIVE NestedObject(_, _, _)
NestedObject(doc, node, segs) ==
    IF segs = <<>> THEN node
    ELSE LET hits == {c \in NodeChilds(doc, node) :
                          c.name = Head(segs) /\ c.type = "JSON_OBJ"}
         IN  IF hits = {} THEN 0
             ELSE NestedObject(doc, (CHOOSE c \in hits : TRUE).id, Tail(segs))
\* the value text stored at s1.s2...sk: s1..s(k-1) nested objects, sk a pair
StoredAt(doc, segs) ==
    IF segs = <<>> THEN NULL
    ELSE LET obj == NestedObject(doc, DocRoot(doc), SubSeq(segs, 1, Len(segs) - 1))
             hits == {q \in NodePairs(doc, obj) : q.key = segs[Len(segs)]}
         IN  IF obj = 0 \/ hits = {} THEN NULL
             ELSE Ptr((CHOOSE q \in hits : TRUE).value)

\* a getter was called on a non-null handle and strdup did not fail
LookupMade == jres.kind /= "none" /\ jdoc /= 0 /\ jres.fatal /= "alloc"
Default(kind) ==
    CASE kind = "double" -> <<0, 0>> [] kind = "int" -> 0 [] OTHER -> <<>>
\* the caller receives ret with exist = 1, or the fatal conversion error when
\* the stored text is not a number of the kind asked for
Delivers(res, text) ==
    /\ res.exist = 1
    /\ res.msgs = 0
    /\ CASE res.kind = "string" -> res.fatal = "no" /\ res.ret = text
         [] res.kind = "int" ->
              IF ED_strtol(text).err = 0
              THEN res.fatal = "no" /\ res.ret = ED_strtol(text).val
              ELSE res.fatal = "convert"
         [] res.kind = "double" ->
              IF ED_strtod(text).err = 0
              THEN res.fatal = "no" /\ res.ret = ED_strtod(text).val
              ELSE res.fatal = "convert"
C2_Example ==
    (LookupMade /\ jpath = <<"a", ".", "b", ".", "c">>) =>
        /\ jres.exist = 1 /\ jres.fatal = "no"
        /\ jres.kind = "int" => jres.ret = 42
        /\ jres.kind = "double" => jres.ret = <<42, 0>>
        /\ jres.kind = "string" => jres.ret = <<"4", "2">>

\* C2: on a non-null handle, a path s1.s2...sk whose s1..s(k-1) name nested
\* child objects from the root and whose sk names a pair of the object reached
\* yields that pair's value with exist = 1 (a.b.c yields 42), and the handle's
\* stored root stays the document root, so a repeated call yields the same.
C2_LookupFound ==
    /\ jroot = DocRoot(jdoc)
    /\ (LookupMade /\ ~HasEmptySegment(jpath) /\ StoredAt(jdoc, Segments(jpath)) /= NULL)
          => Delivers(jres, Deref(StoredAt(jdoc, Segments(jpath))))
    /\ C2_Example

C2_Witness ==
    /\ LookupMade /\ jcalls = 2 /\ jdoc = 1
    /\ jpath = <<"a", ".", "b", ".", "c">>
    /\ jres.kind = "double" /\ jres.ret = <<42, 0>> /\ jres.exist = 1

\* C3: on a non-null handle, a path whose segments do not lead to a pair (a
\* missing intermediate object, segments left after the first segment that is
\* no child object, a missing final field, only object names) yields exist = 0
\* with the default value and no fatal error, one advisory message, and the
\* getter's root reference is null after findValue.
C3_LookupMissing ==
    (LookupMade /\ StoredAt(jdoc, NonEmptySegments(jpath)) = NULL) =>
        /\ jres.exist = 0
        /\ jres.ret = Default(jres.kind)
        /\ jres.fatal = "no"
        /\ jres.msgs = 1
        /\ jres.root = 0

C3_Witness ==
    /\ LookupMade /\ jdoc = 1
    /\ jpath = <<"a", ".", "x", ".", "c">>
    /\ jres.kind = "double" /\ jres.exist = 0 /\ jres.root = 0

\* C8 as stated: a path that is empty or has an empty segment is a lookup
\* failure, exist = 0.
C8_EmptySegmentFails ==
    (LookupMade /\ HasEmptySegment(jpath)) => (jres.exist = 0 /\ jres.root = 0)

GetterOf(kind, doc, stored, varName) ==
    CASE kind = "double" -> ED_getDoubleFromJSON(doc, stored, varName, TRUE)
      [] kind = "int"    -> ED_getIntFromJSON(doc, stored, varName, TRUE)
      [] OTHER           -> ED_getStringFromJSON(doc, stored, varName, TRUE)

\* C8 amended: a path with no segment but empty ones (the empty path, separators
\* only) is a lookup failure with exist = 0; any other path yields what the
\* path with its empty segments removed yields.
C8_EmptySegmentsSkipped ==
    (LookupMade /\ HasEmptySegment(jpath)) =>
        /\ NonEmptySegments(jpath) = <<>> =>
              (jres.exist = 0 /\ jres.root = 0 /\ jres.fatal = "no")
        /\ jres = GetterOf(jres.kind, jdoc, DocRoot(jdoc),
                           JoinDots(NonEmptySegments(jpath)))
        /\ StoredAt(jdoc, NonEmptySegments(jpath)) /= NULL =>
              Delivers(jres, Deref(StoredAt(jdoc, NonEmptySegments(jpath))))

C8_Witness ==
    /\ LookupMade /\ jdoc = 2
    /\ jpath = <<"a", ".", ".", "c">>
    /\ jres.kind = "int" /\ jres.exist = 1 /\ jres.ret = 7

(***************************************************************************)
(* Properties of the MAT-file readers and writer.                          *)
(***************************************************************************)
Count(trace, ev) == Cardinality({k \in 1..Len(trace) : trace[k] = ev})
NamedIn(fvars, varName) == SelectSeq(fvars, LAMBDA v : v.name = varName)
OthersIn(fvars, varName) == SelectSeq(fvars, LAMBDA v : v.name /= varName)
\* the m x n row-major matrix a in column-major order
ColumnMajor(a, m, n) == [k \in DOMAIN a |-> a[(k % m) * n + (k \div m)]]

\* C5, second half: a matrix written by WriteMatrix into a new file and read
\* back by GetMatrix with the same m and n comes back element for element.
C5_FileRoundTrip ==
    \A m \in 1..MaxDim, n \in 1..MaxDim, pat \in Patterns :
        LET a == Buffer(pat, m * n)
            w == ED_writeDoubleArray2DToMAT(1, FALSE, <<>>, "A", a, m, n, 0, "none")
            g == ED_getDoubleArray2DFromMAT(1, w.exists, w.vars, "A",
                                            Untouched(m * n), m, n, "none")
        IN  w.outcome = "return" /\ g.outcome = "return" /\ g.a = a

\* C5: transposing with (nRow, nCol) and then with (nCol, nRow) restores the
\* buffer, for every nRow, nCol >= 1; a matrix written by WriteMatrix and read
\* back by GetMatrix with the same (m, n) is returned as it was written.
C5_TransposeRoundTrip == C5_RoundTrip /\ C5_FileRoundTrip

\* C4: GetMatrix on a non-null handle with (m, n) different from the stored
\* variable's (nRow, nCol) ends in a fatal error, leaves the caller's buffer as
\* it was, and neither reads the data nor transposes.
C4_DimensionMismatch ==
    (/\ mcall.kind = "getMatrix" /\ mcall.h /= 0
     /\ fileExists
     /\ Mat_VarReadInfo(fileVars, mcall.name) /= NULL
     /\ Deref(Mat_VarReadInfo(fileVars, mcall.name)).dims /= <<mcall.m, mcall.n>>)
    => /\ mcall.outcome = "fatal"
       /\ mcall.a = mcall.a0
       /\ Count(mcall.trace, "readdata") = 0
       /\ Count(mcall.trace, "transpose") = 0

C4_Witness ==
    /\ mcall.kind = "getMatrix" /\ mcall.h /= 0 /\ mcall.fault = "none"
    /\ fileExists /\ Len(fileVars) = 1
    /\ fileVars[1].name = mcall.name /\ fileVars[1].rank = 2
    /\ fileVars[1].class_type = "MAT_C_DOUBLE" /\ ~fileVars[1].isComplex
    /\ fileVars[1].dims = <<2, 3>> /\ mcall.m = 2 /\ mcall.n = 2
    /\ mcall.outcome = "fatal" /\ mcall.a = Untouched(4)

\* the variable a successful write stores
Written == MatVar(mcall.name, 2, "MAT_C_DOUBLE", FALSE, <<mcall.m, mcall.n>>,
                  ColumnMajor(mcall.a0, mcall.m, mcall.n))
WriteDone == mcall.kind = "write" /\ mcall.h /= 0 /\ mcall.outcome = "return"

\* C6: a successful WriteMatrix with append = 0 leaves a file holding exactly
\* the variable written; with append /= 0 it leaves exactly one variable of
\* that name, holding the new data, and every other variable as it was; the
\* file never holds two variables of one name; every successful call returns 1.
C6_AppendReplaces ==
    /\ \A k, l \in 1..Len(fileVars) : fileVars[k].name = fileVars[l].name => k = l
    /\ WriteDone =>
          /\ mcall.ret = 1
          /\ fileExists
          /\ mcall.append = 0 => fileVars = <<Written>>
          /\ mcall.append /= 0 =>
                /\ NamedIn(fileVars, mcall.name) = <<Written>>
                /\ OthersIn(fileVars, mcall.name) = OthersIn(mcall.before.vars, mcall.name)

C6_Witness ==
    /\ WriteDone /\ mcall.append = 1 /\ mcall.name = "A"
    /\ mcall.m = 2 /\ mcall.n = 3
    /\ Len(mcall.before.vars) = 2
    /\ NamedIn(mcall.before.vars, "A") /= <<>>
    /\ NamedIn(mcall.before.vars, "A")[1].data /= Written.data
    /\ Len(fileVars) = 2 /\ fileVars[2] = Written /\ fileVars[1].name = "B"

\* C10: whenever GetMatrixDims, GetMatrix or WriteMatrix returns or raises a
\* fatal error, every file opened has been closed once, every variable
\* descriptor freed once and the transpose buffer freed once, and the fatal
\* error is raised after these releases.
C10_ReleasedOnExit ==
    (mcall.outcome \in {"return", "fatal"}) =>
        /\ Count(mcall.trace, "open") <= 1
        /\ Count(mcall.trace, "close") = Count(mcall.trace, "open")
        /\ Count(mcall.trace, "varfree") = Count(mcall.trace, "var")
        /\ Count(mcall.trace, "free") = Count(mcall.trace, "malloc")
        /\ mcall.outcome = "fatal" <=>
              (mcall.trace /= <<>> /\ mcall.trace[Len(mcall.trace)] = "error")
        /\ Count(mcall.trace, "error") <= 1

C10_Witness ==
    /\ mcall.kind = "getMatrix" /\ mcall.outcome = "fatal" /\ mcall.fault = "none"
    /\ mcall.trace = <<"open", "var", "varfree", "close", "error">>
    /\ Deref(Mat_VarReadInfo(fileVars, mcall.name)).isComplex

(***************************************************************************)
(* Properties of the handles.                                              *)
(***************************************************************************)
Destroyed == hlast.kind \in {"destroyMAT", "destroyJSON"}
Owned(type) == IF type = "json" THEN {"struct", "name", "tree", "loc"}
               ELSE {"struct", "name"}
FreedTwice == \E h \in DOMAIN heap :
                  \E f \in {"struct", "name", "tree", "loc"} : heap[h][f] = "freed2"

\* C7 as stated: Close on a null handle or on a handle that was closed before
\* frees nothing and touches no released memory.
C7_CloseTolerant ==
    (Destroyed /\ (hlast.h = 0 \/ hlast.released)) =>
        /\ heap = hlast.before
        /\ hlast.uaf = 0
        /\ ~FreedTwice

\* C7 amended: Close on a null handle frees nothing; Close on a live handle
\* frees each object the handle owns once and touches nothing else; released
\* memory is read and an object freed twice exactly when Close is called on a
\* handle that was closed before.
C7_CloseNullOrLive ==
    /\ (Destroyed /\ hlast.h = 0) =>
          (heap = hlast.before /\ hlast.uaf = 0 /\ ~hub)
    /\ (Destroyed /\ hlast.h /= 0 /\ ~hlast.released) =>
          /\ \A f \in Owned(heap[hlast.h].type) :
                hlast.before[hlast.h][f] = "live" /\ heap[hlast.h][f] = "freed"
          /\ \A g \in DOMAIN heap : g /= hlast.h => heap[g] = hlast.before[g]
          /\ hlast.uaf = 0 /\ ~hub
    /\ hub <=> (Destroyed /\ hlast.h /= 0 /\ hlast.released)
    /\ FreedTwice => hub
    /\ hub => (hlast.uaf > 0 /\ heap[hlast.h].struct = "freed2")

C7_Witness ==
    /\ hlast.kind = "destroyJSON" /\ hlast.h = 0
    /\ \E h \in DOMAIN heap : heap[h].type = "json" /\ heap[h].struct = "live"
    /\ \E h \in DOMAIN heap : heap[h].type = "mat" /\ heap[h].struct = "freed"
                               /\ heap[h].returned

=============================================================================
